---------------------------- MODULE Spec2Model ----------------------------
(***************************************************************************)
(* A model of the RMI4 Function 11 touch decoder of VoodooRMI:             *)
(*   F11           (src/VoodooRMI/Functions/F11.cpp): capability           *)
(*                 negotiation, packet layout, packet decoding;            *)
(*   RMI2DSensor   (src/VoodooRMI/RMI_2D_Sensor.cpp): the multitouch       *)
(*                 state machine fed by F11::getReport.                    *)
(* Every handler is one action; a handler's helper calls are operators     *)
(* the action applies.                                                     *)
(***************************************************************************)
EXTENDS Integers, Sequences, FiniteSets, TLC

VARIABLES
    fn_descriptor,   \* RMIFunction::fn_descriptor: the function's register base addresses
    f11State,        \* lifecycle of the F11 service: "new", "attached", "started", "failed"
    has_query,       \* F11::has_query9/11/12/27/28 and F11::has_acm
    sens_query,      \* F11::sens_query, the capability record
    sensor,          \* RMI2DSensor layout fields: nbr_fingers, pkt_size, attn_size, max_x, max_y, x_mm, y_mm
    dev_controls,    \* F11::dev_controls.ctrl0_11
    busLog,          \* the bus operations issued so far, in order
    initRc,          \* what rmi_f11_initialize returned ("none" before attach)
    query_offset,    \* query_offset of rmi_f11_initialize, as its last assignment left it
    data_pkt,        \* RMI2DSensor::data_pkt, the receive buffer
    inputEvent,      \* RMI2DSensor::inputEvent: transducers, contact_count, timestamp
    freeFingerTypes, \* RMI2DSensor::freeFingerTypes
    pressureLock,    \* RMI2DSensor::pressureLock
    clickpadState,   \* RMI2DSensor::clickpadState
    touchpadEnable,  \* RMI2DSensor::touchpadEnable
    lastKeyboardTS,  \* RMI2DSensor::lastKeyboardTS
    now,             \* the uptime clock read by clock_get_uptime
    attentions,      \* attention messages handled by F11::message
    delivered,       \* events handed to the host by messageClient
    lastReport,      \* the report the latest handleReport call was given
    F11report        \* F11::report, the report getReport fills and handleReport clears

f11vars == <<fn_descriptor, f11State, has_query, sens_query, sensor, dev_controls,
             busLog, initRc, query_offset, data_pkt>>
touchvars == <<inputEvent, freeFingerTypes, pressureLock, delivered, lastReport, F11report>>
envvars == <<clickpadState, touchpadEnable, lastKeyboardTS, now, attentions>>
vars == <<fn_descriptor, f11State, has_query, sens_query, sensor, dev_controls, busLog, initRc,
          query_offset, data_pkt, inputEvent, freeFingerTypes, pressureLock, clickpadState,
          touchpadEnable, lastKeyboardTS, now, attentions, delivered, lastReport, F11report>>

----------------------------------------------------------------------------
(* Bounds of the exploration.                                              *)

\* reports handled per behaviour of Spec (the identity state machine)
MaxReports == 2
\* reports handled per behaviour of SpecForce (the pressure lock)
MaxForceReports == 2
\* reports handled per behaviour of SpecReject (the rejection rule)
MaxRejectReports == 1
\* attention events per behaviour of SpecAttn
MaxAttentions == 2
\* clock ticks (of 250 ms) per behaviour of SpecAttn
MaxTime == 3
\* the bus calls a fault is injected in
MaxBusOps == 19
\* attention events per behaviour of SpecLift
MaxLiftAttentions == 3

----------------------------------------------------------------------------
(* Program constants.                                                      *)

MilliToNano == 1000000
\* Configuration defaults loaded by RMI2DSensor::init
DisableWhileTypingTimeoutMs == 500
forceTouchMinPressure == 80
forceTouchEmulation == TRUE
disableWhileTypingTimeout == DisableWhileTypingTimeoutMs * MilliToNano

\* MT2FingerType, in the order getFingerType walks it
kMT2FingerTypeUndefined == 0
kMT2FingerTypeThumb == 1
kMT2FingerTypeIndexFinger == 2
kMT2FingerTypeCount == 6

RMI_F11_ABS_BYTES == 5

FingerTypes == 0 .. (kMT2FingerTypeCount - 1)

----------------------------------------------------------------------------
(* Arithmetic helpers.                                                     *)

AbsInt(n) == IF n < 0 THEN -n ELSE n

DIV_ROUND_UP(n, d) == (n + d - 1) \div d

Pow2(k) == 2 ^ k

\* (b >> k) & 1 for a byte b
BIT(b, k) == ((b \div Pow2(k)) % 2) = 1

\* b & ((1 << k) - 1)
LowBits(b, k) == b % Pow2(k)

\* b >> k
ShiftRight(b, k) == b \div Pow2(k)

\* The element of a singleton set.  {F(x) : x \in {e}} computes e once and
\* hands its value to F, as a C local holds the result of a call.
The(S) == CHOOSE r \in S : TRUE

----------------------------------------------------------------------------
(* The register bus (RMIBus::read, readBlock, blockWrite).  A call is      *)
(* appended to the log; the call whose index is failAt fails (0: none      *)
(* does).  What a successful read returns is taken from the device         *)
(* descriptor dev by the reading site.                                     *)

NewBus(failAt) == [log |-> <<>>, failAt |-> failAt]

BusOp(b, op, addr, len) ==
    [b EXCEPT !.log = Append(@, [op |-> op, addr |-> addr, len |-> len,
                                 ok |-> (Len(@) + 1 # b.failAt)])]

LastOk(b) == b.log[Len(b.log)].ok

----------------------------------------------------------------------------
(* F11::rmi_f11_get_query_parameters.  q is the decoder's running state:   *)
(*   sq        the capability record being filled,                         *)
(*   size      query_size, the running byte offset,                        *)
(*   has_query36, has_acm,                                                 *)
(*   bus       the bus state,                                              *)
(*   rc        0 while every read succeeded, the bus error (-5) after a    *)
(*             failed one.                                                 *)
(* Bit positions are those of the RMI4 F11 query registers (F11.hpp).      *)

RMI_F11_QUERY_SIZE == 4
RMI_F11_QUERY_GESTURE_SIZE == 2

ZeroQuery ==
    [nr_fingers |-> 0, has_rel |-> FALSE, has_abs |-> FALSE, has_gestures |-> FALSE,
     has_dribble |-> FALSE, has_jitter_filter |-> FALSE, f11_2d_query6 |-> 0,
     has_flick |-> FALSE, has_pinch |-> FALSE, has_rotate |-> FALSE,
     has_palm_det |-> FALSE, has_touch_shapes |-> FALSE,
     query7_nonzero |-> FALSE, query8_nonzero |-> FALSE,
     has_pen |-> FALSE, nr_touch_shapes |-> 0, has_z_tuning |-> FALSE,
     has_info2 |-> FALSE, has_physical_props |-> FALSE, has_finger_limit |-> FALSE,
     jitter_window_size |-> 0, jitter_filter_type |-> 0,
     clickpad_props |-> 0, mouse_buttons |-> 0, has_advanced_gestures |-> FALSE,
     x_sensor_size_mm |-> 0, y_sensor_size_mm |-> 0]

\* QueryRead with the outcome of the read left unchecked
QueryReadUnchecked(q, base, op, len) ==
    [q EXCEPT !.bus = BusOp(q.bus, op, base + q.size, len), !.rc = 0]

\* A read of len bytes at base + q.size; the decoder returns at once when it fails.
QueryRead(q, base, op, len) ==
    LET b == BusOp(q.bus, op, base + q.size, len)
    IN  [q EXCEPT !.bus = b, !.rc = IF LastOk(b) THEN 0 ELSE -5]

\* lines 258-288: the fixed first block
QueryFirstBlock(q, base, dev) ==
    LET r == QueryRead(q, base, "readBlock", RMI_F11_QUERY_SIZE)
    IN  IF r.rc < 0 THEN r
        ELSE [r EXCEPT !.sq.nr_fingers = LowBits(dev.q0, 3),
                       !.sq.has_rel = BIT(dev.q0, 3),
                       !.sq.has_abs = BIT(dev.q0, 4),
                       !.sq.has_gestures = BIT(dev.q0, 5),
                       !.size = RMI_F11_QUERY_SIZE]

\* lines 290-325: absolute-data sub-features
QueryAbs(q, base, dev) ==
    IF q.rc < 0 \/ ~q.sq.has_abs THEN q
    ELSE LET r == QueryRead(q, base, "read", 1)
         IN  IF r.rc < 0 THEN r
             ELSE [r EXCEPT !.sq.has_dribble = BIT(dev.abs, 4),
                            !.sq.has_jitter_filter = BIT(dev.abs, 7),
                            !.size = @ + 1]

\* lines 327-333: relative-data byte, stored undecoded
QueryRel(q, base, dev) ==
    IF q.rc < 0 \/ ~q.sq.has_rel THEN q
    ELSE LET r == QueryRead(q, base, "read", 1)
         IN  IF r.rc < 0 THEN r
             ELSE [r EXCEPT !.sq.f11_2d_query6 = dev.rel, !.size = @ + 1]

\* lines 335-401: the two gesture bytes
QueryGestures(q, base, dev) ==
    IF q.rc < 0 \/ ~q.sq.has_gestures THEN q
    ELSE LET r == QueryRead(q, base, "readBlock", RMI_F11_QUERY_GESTURE_SIZE)
         IN  IF r.rc < 0 THEN r
             ELSE [r EXCEPT !.sq.has_flick = BIT(dev.g7, 4),
                            !.sq.has_pinch = BIT(dev.g7, 6),
                            !.sq.has_palm_det = BIT(dev.g8, 0),
                            !.sq.has_rotate = BIT(dev.g8, 1),
                            !.sq.has_touch_shapes = BIT(dev.g8, 2),
                            !.sq.query7_nonzero = (dev.g7 # 0),
                            !.sq.query8_nonzero = (dev.g8 # 0),
                            !.size = @ + 2]

\* lines 403-439: pen and proximity sub-features
Query9(q, base, dev, hq) ==
    IF q.rc < 0 \/ ~hq.has_query9 THEN q
    ELSE LET r == QueryRead(q, base, "read", 1)
         IN  IF r.rc < 0 THEN r
             ELSE [r EXCEPT !.sq.has_pen = BIT(dev.q9, 0), !.size = @ + 1]

\* lines 441-452: the number of touch shapes
QueryTouchShapes(q, base, dev) ==
    IF q.rc < 0 \/ ~q.sq.has_touch_shapes THEN q
    ELSE LET r == QueryRead(q, base, "read", 1)
         IN  IF r.rc < 0 THEN r
             ELSE [r EXCEPT !.sq.nr_touch_shapes = LowBits(dev.shapes, 5),
                            !.size = @ + 1]

\* lines 454-490: tuning sub-features
Query11(q, base, dev, hq) ==
    IF q.rc < 0 \/ ~hq.has_query11 THEN q
    ELSE LET r == QueryRead(q, base, "read", 1)
         IN  IF r.rc < 0 THEN r
             ELSE [r EXCEPT !.sq.has_z_tuning = BIT(dev.q11, 0), !.size = @ + 1]

\* lines 492-527: the second tuning set, with has_info2 and has_physical_props
Query12(q, base, dev, hq) ==
    IF q.rc < 0 \/ ~hq.has_query12 THEN q
    ELSE LET r == QueryRead(q, base, "read", 1)
         IN  IF r.rc < 0 THEN r
             ELSE [r EXCEPT !.sq.has_info2 = BIT(dev.q12, 4),
                            !.sq.has_physical_props = BIT(dev.q12, 5),
                            !.sq.has_finger_limit = BIT(dev.q12, 6),
                            !.size = @ + 1]

\* QueryJitter governed by the first gesture byte
QueryJitterByGestures(q, base, dev) ==
    IF q.rc < 0 \/ ~q.sq.query7_nonzero THEN q
    ELSE LET r == QueryRead(q, base, "read", 1)
         IN  IF r.rc < 0 THEN r
             ELSE [r EXCEPT !.sq.jitter_window_size = LowBits(dev.jitter, 5),
                            !.sq.jitter_filter_type = LowBits(ShiftRight(dev.jitter, 5), 2),
                            !.size = @ + 1]

\* lines 529-551: the jitter filter byte
QueryJitter(q, base, dev) ==
    IF q.rc < 0 \/ ~q.sq.has_jitter_filter THEN q
    ELSE LET r == QueryRead(q, base, "read", 1)
         IN  IF r.rc < 0 THEN r
             ELSE [r EXCEPT !.sq.jitter_window_size = LowBits(dev.jitter, 5),
                            !.sq.jitter_filter_type = LowBits(ShiftRight(dev.jitter, 5), 2),
                            !.size = @ + 1]

\* lines 553-587: click-pad properties
QueryInfo2(q, base, dev) ==
    IF q.rc < 0 \/ ~q.sq.has_info2 THEN q
    ELSE LET r == QueryRead(q, base, "read", 1)
         IN  IF r.rc < 0 THEN r
             ELSE [r EXCEPT !.sq.clickpad_props = LowBits(ShiftRight(dev.info2, 3), 2),
                            !.sq.mouse_buttons = LowBits(ShiftRight(dev.info2, 5), 2),
                            !.sq.has_advanced_gestures = BIT(dev.info2, 7),
                            !.size = @ + 1]

\* QueryPhysical with twelve bytes skipped after the four read
QueryPhysicalSixteen(q, base, dev) ==
    IF q.rc < 0 \/ ~q.sq.has_physical_props THEN q
    ELSE LET r == QueryRead(q, base, "readBlock", 4)
         IN  IF r.rc < 0 THEN r
             ELSE [r EXCEPT !.sq.x_sensor_size_mm = (dev.size[1] + dev.size[2] * 256) \div 10,
                            !.sq.y_sensor_size_mm = (dev.size[3] + dev.size[4] * 256) \div 10,
                            !.size = @ + 16]

\* lines 589-615: the sensor size, two little-endian 16-bit values in 0.1 mm
QueryPhysical(q, base, dev) ==
    IF q.rc < 0 \/ ~q.sq.has_physical_props THEN q
    ELSE LET r == QueryRead(q, base, "readBlock", 4)
         IN  IF r.rc < 0 THEN r
             ELSE [r EXCEPT !.sq.x_sensor_size_mm = (dev.size[1] + dev.size[2] * 256) \div 10,
                            !.sq.y_sensor_size_mm = (dev.size[3] + dev.size[4] * 256) \div 10,
                            !.size = @ + 12]

\* Query27 with the byte of query 27 not skipped
Query27Unskipped(q, hq) == q

\* lines 617-618
Query27(q, hq) ==
    IF q.rc < 0 \/ ~hq.has_query27 THEN q ELSE [q EXCEPT !.size = @ + 1]

\* lines 626-633: query 28 is read at the running offset, which stays as it is
Query28(q, base, dev, hq) ==
    IF q.rc < 0 \/ ~hq.has_query28 THEN q
    ELSE LET r == QueryRead(q, base, "read", 1)
         IN  IF r.rc < 0 THEN r
             ELSE [r EXCEPT !.has_query36 = BIT(dev.q28, 6)]

\* lines 635-644: query 36 is read two bytes on
Query36(q, base, dev) ==
    IF q.rc < 0 \/ ~q.has_query36 THEN q
    ELSE LET r == QueryRead([q EXCEPT !.size = @ + 2], base, "read", 1)
         IN  IF r.rc < 0 THEN r
             ELSE [r EXCEPT !.has_acm = (q.has_acm \/ BIT(dev.q36, 5))]

\* The blocks in the order the decoder visits them
QueryStage(k, q, base, dev, hq) ==
    CASE k = 1  -> QueryFirstBlock(q, base, dev)
      [] k = 2  -> QueryAbs(q, base, dev)
      [] k = 3  -> QueryRel(q, base, dev)
      [] k = 4  -> QueryGestures(q, base, dev)
      [] k = 5  -> Query9(q, base, dev, hq)
      [] k = 6  -> QueryTouchShapes(q, base, dev)
      [] k = 7  -> Query11(q, base, dev, hq)
      [] k = 8  -> Query12(q, base, dev, hq)
      [] k = 9  -> QueryJitter(q, base, dev)
      [] k = 10 -> QueryInfo2(q, base, dev)
      [] k = 11 -> QueryPhysical(q, base, dev)
      [] k = 12 -> Query27(q, hq)
      [] k = 13 -> Query28(q, base, dev, hq)
      [] OTHER  -> Query36(q, base, dev)

RECURSIVE QueryChain(_, _, _, _, _)
QueryChain(k, q, base, dev, hq) ==
    IF k > 14 THEN q
    ELSE The({QueryChain(k + 1, r, base, dev, hq) : r \in {QueryStage(k, q, base, dev, hq)}})

\* The whole decoder; on success the caller receives q.size.
rmi_f11_get_query_parameters(bus, base, dev, hq) ==
    QueryChain(1, [sq |-> ZeroQuery, size |-> 0, has_query36 |-> FALSE,
                   has_acm |-> FALSE, bus |-> bus, rc |-> 0],
               base, dev, hq)

----------------------------------------------------------------------------
(* F11::f11_2d_construct_data: the packet layout.                          *)

\* ResolvedFingers without the case of code 5
ResolvedFingersLinear(code) == code + 1

\* line 199
ResolvedFingers(code) == IF code = 5 THEN 10 ELSE code + 1

\* lines 202-230: the packet size, from the bitmap on
PacketSize(query, nbr_fingers) ==
    DIV_ROUND_UP(nbr_fingers, 4)
    + (IF query.has_abs THEN nbr_fingers * 5 ELSE 0)
    + (IF query.has_rel THEN nbr_fingers * 2 ELSE 0)
    + (IF query.query7_nonzero THEN 1 ELSE 0)
    + (IF query.query7_nonzero \/ query.query8_nonzero THEN 1 ELSE 0)
    + (IF query.has_pinch \/ query.has_flick \/ query.has_rotate
       THEN 3 - (IF query.has_flick THEN 0 ELSE 1) - (IF query.has_rotate THEN 0 ELSE 1)
       ELSE 0)
    + (IF query.has_touch_shapes THEN DIV_ROUND_UP(query.nr_touch_shapes + 1, 8) ELSE 0)

\* lines 204-207: the attention size is the running packet size once the
\* absolute block is added, and is left as it was without one
AttentionSize(query, nbr_fingers, old) ==
    IF query.has_abs THEN DIV_ROUND_UP(nbr_fingers, 4) + nbr_fingers * 5 ELSE old

ZeroSensor ==
    [nbr_fingers |-> 0, pkt_size |-> 0, attn_size |-> 0, allocated |-> FALSE,
     abs_pos |-> 0, max_x |-> 0, max_y |-> 0, x_mm |-> 0, y_mm |-> 0]

\* mallocOk: whether IOMalloc returned a buffer.  The result carries rc.
f11_2d_construct_data(query, sns, mallocOk) ==
    LET n == ResolvedFingers(query.nr_fingers)
        laid == [sns EXCEPT !.nbr_fingers = n,
                            !.pkt_size = PacketSize(query, n),
                            !.attn_size = AttentionSize(query, n, sns.attn_size)]
    IN  IF ~mallocOk THEN [sensor |-> laid, rc |-> -12]
        ELSE [sensor |-> [laid EXCEPT !.allocated = TRUE,
                                      !.abs_pos = IF query.has_abs
                                                  THEN DIV_ROUND_UP(n, 4) ELSE @],
              rc |-> 0]

----------------------------------------------------------------------------
(* F11::rmi_f11_initialize, called by F11::attach.                         *)

F11_CTRL_SENSOR_MAX_X_POS_OFFSET == 6
F11_CTRL_SENSOR_MAX_Y_POS_OFFSET == 8
RMI_F11_CTRL_REG_COUNT == 12

ZeroHasQuery ==
    [has_query9 |-> FALSE, has_query11 |-> FALSE, has_query12 |-> FALSE,
     has_query27 |-> FALSE, has_query28 |-> FALSE, has_acm |-> FALSE]

ZeroControls == [i \in 1 .. RMI_F11_CTRL_REG_COUNT |-> 0]

\* b & ~BIT(k)
ClearBit(b, k) == IF BIT(b, k) THEN b - Pow2(k) ELSE b

\* lines 669-673
ExtendedFlags(buf) ==
    [has_query9 |-> BIT(buf, 3), has_query11 |-> BIT(buf, 4),
     has_query12 |-> BIT(buf, 5), has_query27 |-> BIT(buf, 6),
     has_query28 |-> BIT(buf, 7), has_acm |-> FALSE]

\* lines 730-738: dribble and palm detection are switched off
AdjustControls(ctrl, query) ==
    [i \in 1 .. RMI_F11_CTRL_REG_COUNT |->
        IF i = 1 /\ query.has_dribble THEN ClearBit(ctrl[i], 6)
        ELSE IF i = 12 /\ query.has_palm_det THEN ClearBit(ctrl[i], 0)
        ELSE ctrl[i]]

\* WithAcm with the ACM bytes added twice over
WithAcmDoubled(sns, has_acm) ==
    IF has_acm THEN [sns EXCEPT !.attn_size = @ + sns.nbr_fingers * 4] ELSE sns

\* has_acm adds two bytes per finger to the attention size (lines 720-721)
WithAcm(sns, has_acm) ==
    IF has_acm THEN [sns EXCEPT !.attn_size = @ + sns.nbr_fingers * 2] ELSE sns

\* The state rmi_f11_initialize leaves, with its return value rc.
\* A failure returns at once and keeps what was assigned before it.
InitResult(rc, hq, sq, sns, ctrl, bus) ==
    [rc |-> rc, has_query |-> hq, sens_query |-> sq, sensor |-> sns,
     dev_controls |-> ctrl, bus |-> bus]

\* InitControls with a failed write of the control block returned as an error
InitControlsWriteFatal(fd, dev, hq, q, cd, bus) ==
    LET s1  == WithAcm(cd.sensor, hq.has_acm)
        b1  == BusOp(bus, "readBlock", fd.control_base_addr, RMI_F11_CTRL_REG_COUNT)
        ctl == AdjustControls(dev.ctrl, q.sq)
        b2  == BusOp(b1, "blockWrite", fd.control_base_addr, RMI_F11_CTRL_REG_COUNT)
    IN  IF cd.rc < 0 THEN InitResult(cd.rc, hq, q.sq, cd.sensor, ZeroControls, bus)
        ELSE IF ~LastOk(b1) THEN InitResult(-5, hq, q.sq, s1, ZeroControls, b1)
        ELSE IF ~LastOk(b2) THEN InitResult(-5, hq, q.sq, s1, ctl, b2)
        ELSE InitResult(0, hq, q.sq, s1, ctl, b2)

\* lines 720-745, entered once the packet buffer is allocated
InitControls(fd, dev, hq, q, cd, bus) ==
    LET s1  == WithAcm(cd.sensor, hq.has_acm)
        b1  == BusOp(bus, "readBlock", fd.control_base_addr, RMI_F11_CTRL_REG_COUNT)
        ctl == AdjustControls(dev.ctrl, q.sq)
        b2  == BusOp(b1, "blockWrite", fd.control_base_addr, RMI_F11_CTRL_REG_COUNT)
    IN  IF cd.rc < 0 THEN InitResult(cd.rc, hq, q.sq, cd.sensor, ZeroControls, bus)
        ELSE IF ~LastOk(b1) THEN InitResult(-5, hq, q.sq, s1, ZeroControls, b1)
        \* a failed write is logged and initialization still returns 0
        ELSE InitResult(0, hq, q.sq, s1, ctl, b2)

\* lines 714-745, entered once max x and max y are read
InitLayout(fd, dev, env, hq, q, sns, bus) ==
    The({InitControls(fd, dev, hq, q, cd, bus) :
         cd \in {f11_2d_construct_data(q.sq, sns, env.mallocOk)}})

\* InitSensor without the test of has_abs
InitSensorNoAbsCheck(fd, dev, env, hq, q) ==
    LET s1 == [ZeroSensor EXCEPT !.x_mm = q.sq.x_sensor_size_mm,
                                 !.y_mm = q.sq.y_sensor_size_mm]
        b1 == BusOp(q.bus, "readBlock",
                    fd.control_base_addr + F11_CTRL_SENSOR_MAX_X_POS_OFFSET, 2)
        b2 == BusOp(b1, "readBlock",
                    fd.control_base_addr + F11_CTRL_SENSOR_MAX_Y_POS_OFFSET, 2)
        s2 == [s1 EXCEPT !.max_x = dev.max_x, !.max_y = dev.max_y]
    IN  IF ~q.sq.has_physical_props
        THEN InitResult(-19, hq, q.sq, ZeroSensor, ZeroControls, q.bus)
        ELSE IF ~LastOk(b1) THEN InitResult(-5, hq, q.sq, s1, ZeroControls, b1)
        ELSE IF ~LastOk(b2) THEN InitResult(-5, hq, q.sq, s1, ZeroControls, b2)
        ELSE InitLayout(fd, dev, env, hq, q, s2, b2)

\* lines 684-712, entered once the query chain is decoded
InitSensor(fd, dev, env, hq, q) ==
    LET s1 == [ZeroSensor EXCEPT !.x_mm = q.sq.x_sensor_size_mm,
                                 !.y_mm = q.sq.y_sensor_size_mm]
        b1 == BusOp(q.bus, "readBlock",
                    fd.control_base_addr + F11_CTRL_SENSOR_MAX_X_POS_OFFSET, 2)
        b2 == BusOp(b1, "readBlock",
                    fd.control_base_addr + F11_CTRL_SENSOR_MAX_Y_POS_OFFSET, 2)
        s2 == [s1 EXCEPT !.max_x = dev.max_x, !.max_y = dev.max_y]
    IN  IF ~q.sq.has_physical_props
        THEN InitResult(-19, hq, q.sq, ZeroSensor, ZeroControls, q.bus)
        ELSE IF ~q.sq.has_abs
        THEN InitResult(-19, hq, q.sq, s1, ZeroControls, q.bus)
        ELSE IF ~LastOk(b1) THEN InitResult(-5, hq, q.sq, s1, ZeroControls, b1)
        ELSE IF ~LastOk(b2) THEN InitResult(-5, hq, q.sq, s1, ZeroControls, b2)
        ELSE InitLayout(fd, dev, env, hq, q, s2, b2)

\* fd: fn_descriptor; dev: the device's registers; env: the failing bus call and IOMalloc's outcome.
\* The result carries query_offset (a u8) as lines 675 and 682 leave it; it
\* is 0 when the function returns before assigning it.
rmi_f11_initialize(fd, dev, env) ==
    LET b1 == BusOp(NewBus(env.failAt), "read", fd.query_base_addr, 1)
        hq == ExtendedFlags(dev.ext)
        start == (fd.query_base_addr + 1) % 256
    IN  IF ~LastOk(b1)
        THEN InitResult(-5, ZeroHasQuery, ZeroQuery, ZeroSensor, ZeroControls, b1)
                 @@ [query_offset |-> 0]
        ELSE The({IF q.rc < 0
                  THEN InitResult(q.rc, [hq EXCEPT !.has_acm = q.has_acm], q.sq,
                                  ZeroSensor, ZeroControls, q.bus)
                           @@ [query_offset |-> start]
                  ELSE InitSensor(fd, dev, env, [hq EXCEPT !.has_acm = q.has_acm], q)
                           @@ [query_offset |-> (start + q.size) % 256] :
                  q \in {rmi_f11_get_query_parameters(b1, start, dev, hq)}})

----------------------------------------------------------------------------
(* RMI2DSensor: the multitouch state machine.  The transducers and the     *)
(* report objects are kept for the slots below nbr_fingers, the only ones  *)
(* the loops reach; the rest of either array stays zero.  Of a transducer  *)
(* the fields written with a constant (type, supportsPressure,             *)
(* isTransducerActive) are left out.                                       *)

ZeroCoordinates == [x |-> 0, y |-> 0, pressure |-> 0, width |-> 0]

ZeroTransducer ==
    [isValid |-> FALSE, fingerType |-> kMT2FingerTypeUndefined,
     currentCoordinates |-> ZeroCoordinates, previousCoordinates |-> ZeroCoordinates,
     isPhysicalButtonDown |-> FALSE, timestamp |-> 0, secondaryId |-> 0]

ZeroObject == [type |-> "none", x |-> 0, y |-> 0, z |-> 0, wx |-> 0, wy |-> 0]

ZeroReport(n) ==
    [timestamp |-> 0, fingers |-> 0, objs |-> [i \in 0 .. (n - 1) |-> ZeroObject]]

ZeroEvent(n) ==
    [transducers |-> [i \in 0 .. (n - 1) |-> ZeroTransducer],
     contact_count |-> 0, timestamp |-> 0]

\* RMI2DSensor::start, lines 41-42
InitialFreeFingerTypes == [t \in FingerTypes |-> t # kMT2FingerTypeUndefined]

\* lines 122-123
IsFingerOrStylus(obj) == obj.type = "finger" \/ obj.type = "stylus"

\* PalmCheck with the size bound taken inclusively
PalmCheckInclusive(obj) == obj.z <= 120 /\ AbsInt(obj.wx - obj.wy) < 3

\* line 136: rudimentary palm detection
PalmCheck(obj) == obj.z < 120 /\ AbsInt(obj.wx - obj.wy) < 3

\* line 138: obj.z / 1.5, truncated
WidthOf(z) == (z * 2) \div 3

\* line 146; the modelled positions satisfy y <= max_y, so the unsigned
\* difference does not wrap
FlipY(max_y, y) == max_y - y

\* lines 141-142: any contact but the first of a report clears the lock
LockAfterCount(lock, realFingerCount) ==
    IF realFingerCount # 1 THEN FALSE ELSE lock

\* lines 152-153
LockAfterPress(lock, clickpad, z) ==
    IF clickpad /\ forceTouchEmulation /\ z > forceTouchMinPressure THEN TRUE ELSE lock

\* lines 144-150: the position follows the contact unless the lock holds it
CoordinatesOf(lock, cur, prev, obj, max_y) ==
    IF ~lock THEN [cur EXCEPT !.x = obj.x, !.y = FlipY(max_y, obj.y)] ELSE prev

\* line 156
ButtonDown(clickpad, lock) == clickpad /\ ~lock

\* lines 120-163: one pass of the first loop.
\* acc: tr (the transducers), lock (pressureLock), real (realFingerCount)
ReportObject(acc, obj, i, timestamp, clickpad, max_y) ==
    LET t0 == [acc.tr[i] EXCEPT !.isValid = IsFingerOrStylus(obj), !.secondaryId = i]
    IN  IF ~IsFingerOrStylus(obj) THEN [acc EXCEPT !.tr[i] = t0]
        ELSE LET real  == acc.real + 1
                 prev  == t0.currentCoordinates
                 c1    == [t0.currentCoordinates EXCEPT !.width = WidthOf(obj.z)]
                 lock1 == LockAfterCount(acc.lock, real)
                 c2    == CoordinatesOf(lock1, c1, prev, obj, max_y)
                 lock2 == LockAfterPress(lock1, clickpad, obj.z)
                 c3    == [c2 EXCEPT !.pressure = IF lock2 THEN 255 ELSE 0]
                 t1    == [t0 EXCEPT !.isValid = PalmCheck(obj),
                                     !.previousCoordinates = prev,
                                     !.currentCoordinates = c3,
                                     !.timestamp = timestamp,
                                     !.isPhysicalButtonDown = ButtonDown(clickpad, lock2)]
             IN  [tr |-> [acc.tr EXCEPT ![i] = t1], lock |-> lock2, real |-> real]

RECURSIVE FirstLoop(_, _, _, _, _)
FirstLoop(report, i, acc, clickpad, max_y) ==
    IF i >= report.fingers THEN acc
    ELSE The({FirstLoop(report, i + 1, a, clickpad, max_y) :
              a \in {ReportObject(acc, report.objs[i], i, report.timestamp,
                                  clickpad, max_y)}})

\* lines 199-208: the valid transducer with the largest y above 0, the first
\* of them on a tie; -1 when there is none
RECURSIVE LowestFinger(_, _, _, _, _)
LowestFinger(tr, i, fingers, minY, lowestFingerIndex) ==
    IF i >= fingers THEN lowestFingerIndex
    ELSE IF tr[i].isValid /\ tr[i].currentCoordinates.y > minY
         THEN LowestFinger(tr, i + 1, fingers, tr[i].currentCoordinates.y, i)
         ELSE LowestFinger(tr, i + 1, fingers, minY, lowestFingerIndex)

\* TakeThumb without the release of the type the transducer held
TakeThumbKeepingType(ts, k) ==
    IF k = -1 THEN ts
    ELSE [tr |-> [ts.tr EXCEPT ![k].fingerType = kMT2FingerTypeThumb],
          free |-> [ts.free EXCEPT ![kMT2FingerTypeThumb] = FALSE]]

\* lines 210-220: transducer k takes the thumb and gives back what it held
TakeThumb(ts, k) ==
    IF k = -1 THEN ts
    ELSE LET released ==
               IF ts.tr[k].fingerType # kMT2FingerTypeUndefined
               THEN [ts.free EXCEPT ![ts.tr[k].fingerType] = TRUE]
               ELSE ts.free
         IN  [tr |-> [ts.tr EXCEPT ![k].fingerType = kMT2FingerTypeThumb],
              free |-> [released EXCEPT ![kMT2FingerTypeThumb] = FALSE]]

\* RMI2DSensor::setThumbFingerType; ts: tr (the transducers), free (freeFingerTypes)
setThumbFingerType(ts, fingers) ==
    The({TakeThumb(ts, k) : k \in {LowestFinger(ts.tr, 0, fingers, 0, -1)}})

\* getFingerType scanning from the highest type down
getFingerTypeDescending(free) ==
    LET cand == {t \in kMT2FingerTypeIndexFinger .. (kMT2FingerTypeCount - 1) : free[t]}
    IN  IF cand = {} THEN kMT2FingerTypeUndefined
        ELSE CHOOSE t \in cand : \A u \in cand : t >= u

\* RMI2DSensor::getFingerType: the lowest free type from the index finger on,
\* undefined when none is free
getFingerType(free) ==
    LET cand == {t \in kMT2FingerTypeIndexFinger .. (kMT2FingerTypeCount - 1) : free[t]}
    IN  IF cand = {} THEN kMT2FingerTypeUndefined
        ELSE CHOOSE t \in cand : \A u \in cand : t <= u

\* lines 175-177: a valid transducer without a type is given one
AssignType(ts, i) ==
    The({[tr |-> [ts.tr EXCEPT ![i].fingerType = t],
          free |-> IF t = kMT2FingerTypeUndefined THEN ts.free
                   ELSE [ts.free EXCEPT ![t] = FALSE]] :
         t \in {getFingerType(ts.free)}})

\* lines 179-182: an invalid transducer gives its type back
ReleaseType(ts, i) ==
    [tr |-> [ts.tr EXCEPT ![i].fingerType = kMT2FingerTypeUndefined],
     free |-> IF ts.tr[i].fingerType # kMT2FingerTypeUndefined
              THEN [ts.free EXCEPT ![ts.tr[i].fingerType] = TRUE]
              ELSE ts.free]

\* lines 172-183: one pass of the second loop
TypeObject(ts, i) ==
    IF ts.tr[i].isValid
    THEN IF ts.tr[i].fingerType = kMT2FingerTypeUndefined THEN AssignType(ts, i) ELSE ts
    ELSE ReleaseType(ts, i)

RECURSIVE SecondLoop(_, _, _)
SecondLoop(ts, i, fingers) ==
    IF i >= fingers THEN ts
    ELSE The({SecondLoop(t, i + 1, fingers) : t \in {TypeObject(ts, i)}})

\* ThumbWanted with four or more contacts
ThumbWantedFourOrMore(realFingerCount, free) ==
    realFingerCount >= 4 /\ free[kMT2FingerTypeThumb]

\* lines 166-168
ThumbWanted(realFingerCount, free) ==
    realFingerCount = 4 /\ free[kMT2FingerTypeThumb]

\* TypePass with the valid transducers counted into contact_count
TypePassCountingValid(report, a, free) ==
    LET t0 == [tr |-> a.tr, free |-> free]
        t1 == IF ThumbWanted(a.real, free) THEN setThumbFingerType(t0, report.fingers)
              ELSE t0
    IN  The({[inputEvent |-> [transducers |-> t2.tr,
                              contact_count |->
                                  Cardinality({i \in DOMAIN t2.tr : t2.tr[i].isValid}),
                              timestamp |-> report.timestamp],
              free |-> t2.free,
              lock |-> IF a.real = 0 THEN FALSE ELSE a.lock] :
             t2 \in {SecondLoop(t1, 0, report.fingers)}})

\* lines 166-191, entered with the first loop's result a
TypePass(report, a, free) ==
    LET t0 == [tr |-> a.tr, free |-> free]
        t1 == IF ThumbWanted(a.real, free) THEN setThumbFingerType(t0, report.fingers)
              ELSE t0
    IN  The({[inputEvent |-> [transducers |-> t2.tr,
                              contact_count |-> report.fingers,
                              timestamp |-> report.timestamp],
              free |-> t2.free,
              lock |-> IF a.real = 0 THEN FALSE ELSE a.lock] :
             t2 \in {SecondLoop(t1, 0, report.fingers)}})

\* RMI2DSensor::handleReport: the event, the pool and the lock it leaves
handleReport(report, ev, free, lock, clickpad, max_y) ==
    The({TypePass(report, a, free) :
         a \in {FirstLoop(report, 0, [tr |-> ev.transducers, lock |-> lock, real |-> 0],
                          clickpad, max_y)}})

\* shouldDiscardReport without the touchpad-enable test
shouldDiscardReportTypingOnly(timestamp, enable, lastTS) ==
    timestamp >= lastTS /\ timestamp - lastTS < disableWhileTypingTimeout

\* RMI2DSensor::shouldDiscardReport.  timestamp - lastKeyboardTS is a
\* 64-bit unsigned difference: with timestamp < lastKeyboardTS it wraps to a
\* value above every timeout
shouldDiscardReport(timestamp, enable, lastTS) ==
    ~enable \/ (timestamp >= lastTS /\ timestamp - lastTS < disableWhileTypingTimeout)

----------------------------------------------------------------------------
(* F11::getReport: the packet decoder.  A packet is a function from the    *)
(* byte offsets 0 .. pkt_size - 1 to bytes.                                *)

F11_PRESENT == 1
F11_RESERVED == 3

RECURSIVE BitAnd(_, _)
BitAnd(a, b) ==
    IF a = 0 \/ b = 0 THEN 0
    ELSE 2 * BitAnd(a \div 2, b \div 2) + (IF a % 2 = 1 /\ b % 2 = 1 THEN 1 ELSE 0)

\* for operands that share no set bit
BitOr(a, b) == a + b - BitAnd(a, b)

\* the 2-bit state of finger i, four to a byte from offset 0 (f_state)
rmi_f11_parse_finger_state(pkt, i) ==
    LowBits(ShiftRight(pkt[i \div 4], 2 * (i % 4)), 2)

\* ReportedFingers with the masked finger count as the number of slots
ReportedFingersMasked(sns) == BitAnd(sns.nbr_fingers, RMI_F11_ABS_BYTES)

\* lines 132-136
ReportedFingers(sns) ==
    IF BitAnd(sns.nbr_fingers, RMI_F11_ABS_BYTES) > sns.pkt_size
    THEN sns.pkt_size \div RMI_F11_ABS_BYTES
    ELSE sns.nbr_fingers

\* DecodeObject with the low nibbles of X and Y taken from each other's half
\* of the third byte
DecodeObjectSwapped(pkt, abs_pos, i, finger_state, old) ==
    LET pos == abs_pos + i * RMI_F11_ABS_BYTES
    IN  IF finger_state = F11_RESERVED THEN old
        ELSE [type |-> IF finger_state = F11_PRESENT THEN "finger" ELSE "none",
              x  |-> BitOr(pkt[pos] * 16, ShiftRight(pkt[pos + 2], 4)),
              y  |-> BitOr(pkt[pos + 1] * 16, LowBits(pkt[pos + 2], 4)),
              z  |-> pkt[pos + 4],
              wx |-> LowBits(pkt[pos + 3], 4),
              wy |-> ShiftRight(pkt[pos + 3], 4)]

\* lines 139-153; old is report.objs[i] as the call finds it, which a
\* reserved state leaves as it is
DecodeObject(pkt, abs_pos, i, finger_state, old) ==
    LET pos == abs_pos + i * RMI_F11_ABS_BYTES
    IN  IF finger_state = F11_RESERVED THEN old
        ELSE [type |-> IF finger_state = F11_PRESENT THEN "finger" ELSE "none",
              x  |-> BitOr(pkt[pos] * 16, LowBits(pkt[pos + 2], 4)),
              y  |-> BitOr(pkt[pos + 1] * 16, ShiftRight(pkt[pos + 2], 4)),
              z  |-> pkt[pos + 4],
              wx |-> LowBits(pkt[pos + 3], 4),
              wy |-> ShiftRight(pkt[pos + 3], 4)]

\* lines 138-157: the report handed to the sensor, written over F11::report
\* as the call finds it (old)
DecodeReport(pkt, sns, timestamp, old) ==
    [timestamp |-> timestamp, fingers |-> ReportedFingers(sns),
     objs |-> [i \in 0 .. (sns.nbr_fingers - 1) |->
                  IF i < ReportedFingers(sns)
                  THEN DecodeObject(pkt, sns.abs_pos, i, rmi_f11_parse_finger_state(pkt, i),
                                    old.objs[i])
                  ELSE old.objs[i]]]

ZeroPacket(size) == [k \in 0 .. (size - 1) |-> 0]

----------------------------------------------------------------------------
(* The operations.                                                         *)

\* RMIBus messages the functions it attached and started, and no other:
\* a function whose attach or start returned false receives no message
Messaged == f11State = "started"

\* ClearedReport with the report left as it was handed over
ClearedReportKept(report) == report

\* line 194 of RMI_2D_Sensor.cpp: memset(report, 0, sizeof(RMI2DSensorReport))
ClearedReport(report) == ZeroReport(Cardinality(DOMAIN report.objs))

\* RMI2DSensor::message, kHandleRMIInputReport: handleReport on a report,
\* the report being F11::report
Deliver(report) ==
    \E r \in {handleReport(report, inputEvent, freeFingerTypes, pressureLock,
                           clickpadState, sensor.max_y)} :
        /\ inputEvent' = r.inputEvent
        /\ freeFingerTypes' = r.free
        /\ pressureLock' = r.lock
        /\ delivered' = delivered + 1
        /\ lastReport' = report
        /\ F11report' = ClearedReport(report)

InputReport(report) ==
    /\ Messaged
    /\ Deliver(report)
    /\ UNCHANGED <<f11vars, envvars>>

\* F11::message, kHandleRMIAttention: getReport.  pkt is what the device
\* returns, ok whether the read succeeded; the uptime is now.
Attention(pkt, ok) ==
    /\ Messaged
    /\ attentions' = attentions + 1
    /\ busLog' = Append(busLog, [op |-> "readBlock", addr |-> fn_descriptor.data_base_addr,
                                 len |-> sensor.pkt_size, ok |-> ok])
    /\ data_pkt' = IF ok THEN pkt ELSE data_pkt
    /\ IF ~ok \/ shouldDiscardReport(now, touchpadEnable, lastKeyboardTS)
       THEN UNCHANGED touchvars
       ELSE Deliver(DecodeReport(pkt, sensor, now, F11report))
    /\ UNCHANGED <<fn_descriptor, f11State, has_query, sens_query, sensor, dev_controls,
                   initRc, query_offset, clickpadState, touchpadEnable, lastKeyboardTS, now>>

\* kHandleRMIClickpadSet, forwarded by F11::message
ClickpadSet(b) ==
    /\ Messaged
    /\ clickpadState' = b
    /\ UNCHANGED <<f11vars, touchvars, touchpadEnable, lastKeyboardTS, now, attentions>>

\* kHandleRMITrackpoint: the uptime becomes the last keyboard time
Trackpoint ==
    /\ Messaged
    /\ lastKeyboardTS' = now
    /\ UNCHANGED <<f11vars, touchvars, clickpadState, touchpadEnable, now, attentions>>

\* kKeyboardKeyPressTime
KeyboardKeyPressTime(t) ==
    /\ Messaged
    /\ lastKeyboardTS' = t
    /\ UNCHANGED <<f11vars, touchvars, clickpadState, touchpadEnable, now, attentions>>

\* kKeyboardSetTouchStatus
KeyboardSetTouchStatus(b) ==
    /\ Messaged
    /\ touchpadEnable' = b
    /\ UNCHANGED <<f11vars, touchvars, clickpadState, lastKeyboardTS, now, attentions>>

\* the uptime clock advances by a quarter of a second
TickNano == 250 * MilliToNano

Tick ==
    /\ now < MaxTime * TickNano
    /\ now' = now + TickNano
    /\ UNCHANGED <<f11vars, touchvars, clickpadState, touchpadEnable, lastKeyboardTS,
                   attentions>>

\* Attach with the error of rmi_f11_initialize ignored
AttachIgnoringError(dev, env) ==
    /\ f11State = "new"
    /\ \E r \in {rmi_f11_initialize(fn_descriptor, dev, env)} :
        /\ f11State' = "attached"
        /\ initRc' = r.rc
        /\ query_offset' = r.query_offset
        /\ has_query' = r.has_query
        /\ sens_query' = r.sens_query
        /\ sensor' = r.sensor
        /\ dev_controls' = r.dev_controls
        /\ busLog' = r.bus.log
        /\ data_pkt' = IF r.sensor.allocated THEN ZeroPacket(r.sensor.pkt_size) ELSE data_pkt
        /\ inputEvent' = ZeroEvent(r.sensor.nbr_fingers)
        /\ lastReport' = ZeroReport(r.sensor.nbr_fingers)
        /\ F11report' = ZeroReport(r.sensor.nbr_fingers)
    /\ UNCHANGED <<fn_descriptor, freeFingerTypes, pressureLock, delivered, envvars>>

\* F11::attach: rmi_f11_initialize against the device dev
Attach(dev, env) ==
    /\ f11State = "new"
    /\ \E r \in {rmi_f11_initialize(fn_descriptor, dev, env)} :
        /\ f11State' = IF r.rc = 0 THEN "attached" ELSE "failed"
        /\ initRc' = r.rc
        /\ query_offset' = r.query_offset
        /\ has_query' = r.has_query
        /\ sens_query' = r.sens_query
        /\ sensor' = r.sensor
        /\ dev_controls' = r.dev_controls
        /\ busLog' = r.bus.log
        /\ data_pkt' = IF r.sensor.allocated THEN ZeroPacket(r.sensor.pkt_size) ELSE data_pkt
        /\ inputEvent' = ZeroEvent(r.sensor.nbr_fingers)
        /\ lastReport' = ZeroReport(r.sensor.nbr_fingers)
        /\ F11report' = ZeroReport(r.sensor.nbr_fingers)
    /\ UNCHANGED <<fn_descriptor, freeFingerTypes, pressureLock, delivered, envvars>>

\* Start without the write of the control block
StartWithoutWrite(ok) ==
    /\ f11State = "attached"
    /\ f11State' = IF ok THEN "started" ELSE "failed"
    /\ freeFingerTypes' = IF ok THEN InitialFreeFingerTypes ELSE freeFingerTypes
    /\ UNCHANGED <<fn_descriptor, has_query, sens_query, sensor, dev_controls, busLog, initRc,
                   query_offset, data_pkt, inputEvent, pressureLock, delivered, lastReport,
                   F11report, envvars>>

\* F11::start: the control block is written, then RMI2DSensor::start fills the pool
Start(ok) ==
    /\ f11State = "attached"
    /\ busLog' = Append(busLog, [op |-> "blockWrite", addr |-> fn_descriptor.query_base_addr,
                                 len |-> RMI_F11_CTRL_REG_COUNT, ok |-> ok])
    /\ f11State' = IF ok THEN "started" ELSE "failed"
    /\ freeFingerTypes' = IF ok THEN InitialFreeFingerTypes ELSE freeFingerTypes
    /\ UNCHANGED <<fn_descriptor, has_query, sens_query, sensor, dev_controls, initRc,
                   query_offset, data_pkt, inputEvent, pressureLock, delivered, lastReport,
                   F11report, envvars>>

----------------------------------------------------------------------------
(* The devices and the faults initialization is run against.               *)

FnDescriptor == [query_base_addr |-> 48, control_base_addr |-> 80, data_base_addr |-> 16]

NoFault == [failAt |-> 0, mallocOk |-> TRUE]

\* A plain pad: absolute data, query 12 with physical properties, and
\* ResolvedFingers(code) fingers
PadWithFingers(code) ==
    [ext |-> 32, q0 |-> 16 + code, abs |-> 0, rel |-> 0, g7 |-> 0, g8 |-> 0, q9 |-> 0,
     shapes |-> 0, q11 |-> 0, q12 |-> 32, jitter |-> 0, info2 |-> 0,
     size |-> <<232, 3, 244, 1>>, q28 |-> 0, q36 |-> 0,
     max_x |-> 2048, max_y |-> 1024, ctrl |-> [i \in 1 .. RMI_F11_CTRL_REG_COUNT |-> 255]]

\* The register values of the devices: every finger code with and without
\* relative data and gestures, pads without absolute data, every extended
\* query present or absent, ACM negotiated or not
Devices ==
    [ext : {0, 32, 160, 248},
     q0 : {f + c : f \in {16, 56}, c \in 0 .. 7} \cup {10, 44},
     abs : {0, 144}, rel : {3}, g7 : {0, 16, 80}, g8 : {0, 3, 4}, q9 : {1},
     shapes : {7, 8}, q11 : {0}, q12 : {0, 32, 48}, jitter : {37}, info2 : {40},
     size : {<<232, 3, 244, 1>>}, q28 : {0, 64}, q36 : {0, 32},
     max_x : {2048}, max_y : {1024},
     ctrl : {[i \in 1 .. RMI_F11_CTRL_REG_COUNT |-> 255]}]

\* the devices the faults are injected on: a plain pad and one with every query
FaultDevices ==
    {PadWithFingers(1),
     [PadWithFingers(5) EXCEPT !.ext = 248, !.q0 = 61, !.abs = 144, !.g7 = 80, !.g8 = 7,
                               !.q9 = 1, !.shapes = 8, !.q12 = 48, !.jitter = 37,
                               !.q28 = 64, !.q36 = 32]}

Faults ==
    {[failAt |-> k, mallocOk |-> TRUE] : k \in 1 .. MaxBusOps}
        \cup {[failAt |-> 0, mallocOk |-> FALSE]}

----------------------------------------------------------------------------
(* The reports the sensor is driven with.                                  *)

Contact(kind, at) ==
    CASE kind = "finger" -> [type |-> "finger", x |-> at[1], y |-> at[2], z |-> 50, wx |-> 4, wy |-> 4]
      [] kind = "heavy"  -> [type |-> "finger", x |-> at[1], y |-> at[2], z |-> 100, wx |-> 5, wy |-> 4]
      [] kind = "palm"   -> [type |-> "finger", x |-> at[1], y |-> at[2], z |-> 200, wx |-> 9, wy |-> 9]
      [] kind = "wide"   -> [type |-> "finger", x |-> at[1], y |-> at[2], z |-> 60, wx |-> 2, wy |-> 9]
      [] kind = "stylus" -> [type |-> "stylus", x |-> at[1], y |-> at[2], z |-> 30, wx |-> 1, wy |-> 1]
      [] OTHER -> ZeroObject

MakeReport(objs) ==
    [timestamp |-> 0, fingers |-> Cardinality(DOMAIN objs), objs |-> objs]

\* where the contact of slot i is, by arrangement
Rising(i) == <<200 * (i + 1), 100 * (i + 1)>>
Falling(i) == <<200 * (i + 1), 100 * (5 - i)>>

\* five slots: a finger or nothing in slots 0 to 3; a finger, a palm or
\* nothing in slot 4
IdentityKinds ==
    {k \in [0 .. 4 -> {"none", "finger", "palm"}] : \A i \in 0 .. 3 : k[i] # "palm"}

IdentityReports ==
    {MakeReport([i \in 0 .. 4 |-> Contact(k[i], Rising(i))]) : k \in IdentityKinds}
        \cup {MakeReport([i \in 0 .. 4 |-> Contact(k[i], Falling(i))]) : k \in IdentityKinds}

\* two slots: nothing, or a light or a heavy finger at one of two places;
\* a palm in slot 1
ForceContacts(i) ==
    {ZeroObject}
        \cup {Contact(k, at) : k \in {"finger", "heavy"}, at \in {<<500, 300>>, <<520, 340>>}}
        \cup (IF i = 1 THEN {Contact("palm", <<900, 900>>)} ELSE {})

ForceReports ==
    {MakeReport([i \in 0 .. 1 |-> IF i = 0 THEN a ELSE b]) :
        a \in ForceContacts(0), b \in ForceContacts(1)}

\* one slot: a contact of any type, size and pair of widths
AnyContactReport(t, z, wx, wy) ==
    MakeReport([i \in 0 .. 0 |-> [type |-> t, x |-> 300, y |-> 200, z |-> z,
                                  wx |-> wx, wy |-> wy]])

\* the bytes of a two-finger packet: the states of both fingers, then the
\* 5-byte record of each
EncodeObject(obj) ==
    <<obj.x \div 16, obj.y \div 16, (obj.y % 16) * 16 + (obj.x % 16),
      obj.wy * 16 + obj.wx, obj.z>>

EncodePacket(s0, o0, s1, o1) ==
    [k \in 0 .. 10 |->
        IF k = 0 THEN s0 + 4 * s1
        ELSE IF k <= 5 THEN EncodeObject(o0)[k]
        ELSE EncodeObject(o1)[k - 5]]

\* the states of the two fingers and the kind of the second contact
AttentionCases ==
    {<<1, 0, "finger">>, <<1, 1, "finger">>, <<1, 1, "palm">>,
     <<0, 1, "finger">>, <<3, 1, "finger">>, <<2, 3, "finger">>}

AttentionPackets ==
    {EncodePacket(c[1], Contact("finger", <<501, 302>>), c[2], Contact(c[3], <<777, 655>>)) :
        c \in AttentionCases}

KeyPressTimes == {k * TickNano : k \in 0 .. MaxTime}

\* the packets of a two-finger pad with a light finger or nothing in each
\* slot
LiftPackets ==
    {EncodePacket(s0, Contact("finger", <<501, 302>>), s1, Contact("finger", <<777, 655>>)) :
        s0 \in {0, F11_PRESENT}, s1 \in {0, F11_PRESENT}}

\* pads of every finger code, with and without relative data and gestures
CountDevices ==
    {[PadWithFingers(c) EXCEPT !.q0 = f + c, !.rel = 3, !.g7 = g, !.g8 = 4, !.shapes = 8] :
        c \in 0 .. 7, f \in {16, 56}, g \in {0, 80}}

\* a packet of the sensor's size: every state byte s, every record zero
CountPacket(sns, s) ==
    [k \in 0 .. (sns.pkt_size - 1) |-> IF k < sns.abs_pos THEN s ELSE 0]

\* a two-finger pad whose coordinates span the twelve bits of a record
CodecPad == [PadWithFingers(1) EXCEPT !.max_x = 4095, !.max_y = 4095]

\* contacts at the ends and inside the range of every field of a record
CodecValues ==
    [type : {"finger"}, x : {0, 15, 2748, 4095}, y : {0, 16, 1929, 4095},
     z : {0, 200, 255}, wx : {0, 3, 15}, wy : {0, 14, 15}]

\* packets of two present fingers, either of them any of CodecValues
CodecPackets ==
    {EncodePacket(1, v, 1, Contact("finger", <<501, 302>>)) : v \in CodecValues}
        \cup {EncodePacket(1, Contact("finger", <<501, 302>>), 1, v) : v \in CodecValues}

----------------------------------------------------------------------------
(* The specifications.                                                     *)

\* The driver objects as constructed: zero-filled but for the members the
\* class definitions and RMI2DSensor::init set.
InitNew ==
    /\ fn_descriptor = FnDescriptor
    /\ f11State = "new"
    /\ has_query = ZeroHasQuery
    /\ sens_query = ZeroQuery
    /\ sensor = ZeroSensor
    /\ dev_controls = ZeroControls
    /\ busLog = <<>>
    /\ initRc = 1
    /\ query_offset = 0
    /\ data_pkt = ZeroPacket(0)
    /\ inputEvent = ZeroEvent(0)
    /\ freeFingerTypes = [t \in FingerTypes |-> FALSE]
    /\ pressureLock = FALSE
    /\ clickpadState = FALSE
    /\ touchpadEnable = TRUE
    /\ lastKeyboardTS = 0
    /\ now = 0
    /\ attentions = 0
    /\ delivered = 0
    /\ lastReport = ZeroReport(0)
    /\ F11report = ZeroReport(0)

\* The state F11::attach and F11::start leave on the device dev
InitStarted(dev) ==
    \E r \in {rmi_f11_initialize(FnDescriptor, dev, NoFault)} :
        /\ fn_descriptor = FnDescriptor
        /\ f11State = "started"
        /\ has_query = r.has_query
        /\ sens_query = r.sens_query
        /\ sensor = r.sensor
        /\ dev_controls = r.dev_controls
        /\ busLog = Append(r.bus.log, [op |-> "blockWrite", addr |-> FnDescriptor.query_base_addr,
                                       len |-> RMI_F11_CTRL_REG_COUNT, ok |-> TRUE])
        /\ initRc = r.rc
        /\ query_offset = r.query_offset
        /\ data_pkt = ZeroPacket(r.sensor.pkt_size)
        /\ inputEvent = ZeroEvent(r.sensor.nbr_fingers)
        /\ freeFingerTypes = InitialFreeFingerTypes
        /\ pressureLock = FALSE
        /\ clickpadState = FALSE
        /\ touchpadEnable = TRUE
        /\ lastKeyboardTS = 0
        /\ now = 0
        /\ attentions = 0
        /\ delivered = 0
        /\ lastReport = ZeroReport(r.sensor.nbr_fingers)
        /\ F11report = ZeroReport(r.sensor.nbr_fingers)

\* SpecInit: a device is attached and started
NextInit ==
    \/ \E dev \in Devices : Attach(dev, NoFault)
    \/ \E dev \in FaultDevices, env \in Faults : Attach(dev, env)
    \/ \E ok \in BOOLEAN : Start(ok)

SpecInit == InitNew /\ [][NextInit]_vars

\* Spec: reports on a five-finger pad
Init == InitStarted(PadWithFingers(4))

Next == delivered < MaxReports /\ \E report \in IdentityReports : InputReport(report)

Spec == Init /\ [][Next]_vars

\* SpecForce: reports and the clickpad button on a two-finger pad
InitForce == InitStarted(PadWithFingers(1))

NextForce ==
    \/ delivered < MaxForceReports /\ \E report \in ForceReports : InputReport(report)
    \/ \E b \in BOOLEAN : ClickpadSet(b)

SpecForce == InitForce /\ [][NextForce]_vars

\* SpecAttn: attention events on a two-finger pad, with the keyboard, the
\* trackpoint, the clickpad button and the clock
NextAttn ==
    \/ attentions < MaxAttentions
         /\ \E pkt \in AttentionPackets, ok \in BOOLEAN : Attention(pkt, ok)
    \/ \E b \in BOOLEAN : ClickpadSet(b)
    \/ Trackpoint
    \/ \E t \in KeyPressTimes : KeyboardKeyPressTime(t)
    \/ \E b \in BOOLEAN : KeyboardSetTouchStatus(b)
    \/ Tick

SpecAttn == InitForce /\ [][NextAttn]_vars

\* SpecReject: one report on a one-finger pad
InitReject == InitStarted(PadWithFingers(0))

NextReject ==
    /\ delivered < MaxRejectReports
    /\ \E t \in {"none", "finger", "stylus"}, z \in 0 .. 255, wx \in 0 .. 15, wy \in 0 .. 15 :
           InputReport(AnyContactReport(t, z, wx, wy))

SpecReject == InitReject /\ [][NextReject]_vars

\* SpecCodec: the device presents one packet, read at every attention event,
\* while the clock advances
InitCodec == InitStarted(CodecPad)

NextCodec ==
    \/ attentions = 0 /\ \E pkt \in CodecPackets : Attention(pkt, TRUE)
    \/ attentions > 0 /\ attentions < MaxAttentions /\ Attention(data_pkt, TRUE)
    \/ Tick

SpecCodec == InitCodec /\ [][NextCodec]_vars

\* SpecCount: a pad of any finger count is attached and started; its packets
\* hold no finger (state bytes 0) or a finger in every slot (state bytes 85)
NextCount ==
    \/ \E dev \in CountDevices : Attach(dev, NoFault)
    \/ Start(TRUE)
    \/ attentions < MaxAttentions
         /\ \E s \in {0, 85}, ok \in BOOLEAN : Attention(CountPacket(sensor, s), ok)
    \/ Tick

SpecCount == InitNew /\ [][NextCount]_vars

\* SpecLife: a two-finger pad is attached, with or without a fault, and
\* started; attention events arrive and the clock advances
NextLife ==
    \/ \E env \in Faults \cup {NoFault} : Attach(PadWithFingers(1), env)
    \/ \E ok \in BOOLEAN : Start(ok)
    \/ attentions < MaxAttentions
         /\ \E pkt \in AttentionPackets, ok \in BOOLEAN : Attention(pkt, ok)
    \/ Tick

SpecLife == InitNew /\ [][NextLife]_vars

\* SpecLift: attention events on a two-finger pad whose packets hold a light
\* finger or nothing in each slot, while the touchpad is disabled and
\* enabled, keys are pressed and the clock advances
NextLift ==
    \/ attentions < MaxLiftAttentions
         /\ \E pkt \in LiftPackets, ok \in BOOLEAN : Attention(pkt, ok)
    \/ \E t \in KeyPressTimes : KeyboardKeyPressTime(t)
    \/ \E b \in BOOLEAN : KeyboardSetTouchStatus(b)
    \/ Tick

SpecLift == InitForce /\ [][NextLift]_vars

----------------------------------------------------------------------------
(* The properties.                                                         *)

SlotSet == DOMAIN inputEvent.transducers
ValidSlots == {i \in SlotSet : inputEvent.transducers[i].isValid}
ValidSlotsAfter == {i \in SlotSet : inputEvent'.transducers[i].isValid}
TypeOf(i) == inputEvent.transducers[i].fingerType
TypeAfter(i) == inputEvent'.transducers[i].fingerType
YAfter(i) == inputEvent'.transducers[i].currentCoordinates.y
PressureOf(i) == inputEvent.transducers[i].currentCoordinates.pressure
PressureAfter(i) == inputEvent'.transducers[i].currentCoordinates.pressure
\* a report handled in this step
Updated == delivered' = delivered + 1
NonThumbTypes == kMT2FingerTypeIndexFinger .. (kMT2FingerTypeCount - 1)

\* C1, as the spec states it: after a successful initialization the
\* attention size is at most the packet size.
C1_AttnWithinPacket ==
    initRc = 0 => sensor.attn_size <= sensor.pkt_size

\* C1, amended: after a successful initialization the attention size is the
\* bitmap and the absolute block, plus two bytes per finger when ACM is
\* negotiated; it is at most the packet size when ACM is not negotiated, and
\* at most the packet size plus two bytes per finger always.
C1_AttnSize ==
    initRc = 0 =>
        /\ sensor.attn_size
             = ((sensor.nbr_fingers + 3) \div 4) + 5 * sensor.nbr_fingers
               + (IF has_query.has_acm THEN 2 * sensor.nbr_fingers ELSE 0)
        /\ ~has_query.has_acm => sensor.attn_size <= sensor.pkt_size
        /\ sensor.attn_size <= sensor.pkt_size + 2 * sensor.nbr_fingers

\* ACM negotiated on a ten-finger pad without relative data: 73 bytes of
\* attention for a packet of 53
C1_Witness ==
    /\ initRc = 0
    /\ has_query.has_acm
    /\ sensor.nbr_fingers = 10
    /\ sensor.attn_size > sensor.pkt_size

\* C2: after every update every finger type but undefined is either free
\* and held by no slot, or not free and held by exactly one slot.
C2_PoolInvariant ==
    \A t \in FingerTypes \ {kMT2FingerTypeUndefined} :
        LET holders == {i \in SlotSet : TypeOf(i) = t}
        IN  \/ freeFingerTypes[t] /\ holders = {}
            \/ ~freeFingerTypes[t] /\ Cardinality(holders) = 1

\* five valid contacts holding the thumb and the four other types: the whole
\* pool in use, each type by one slot
C2_Witness ==
    /\ delivered = 2
    /\ Cardinality(ValidSlots) = 5
    /\ \E i \in SlotSet : TypeOf(i) = kMT2FingerTypeThumb
    /\ \A t \in NonThumbTypes : ~freeFingerTypes[t]

\* C3, as the spec states it: a slot valid in two consecutive updates that
\* holds a type after the first holds the same type after the second.
C3_SameType ==
    [][Updated =>
         \A i \in SlotSet :
             (i \in ValidSlots /\ TypeOf(i) # kMT2FingerTypeUndefined /\ i \in ValidSlotsAfter)
                 => TypeAfter(i) = TypeOf(i)]_vars

\* C3, amended: such a slot holds the same type after the second update, or
\* the thumb when the thumb was free as the update began, the report had
\* exactly four contacts of type finger or stylus, and no valid slot has a
\* larger Y than it.
C3_SameTypeOrThumb ==
    [][Updated =>
         \A i \in SlotSet :
             (i \in ValidSlots /\ TypeOf(i) # kMT2FingerTypeUndefined /\ i \in ValidSlotsAfter)
                 => \/ TypeAfter(i) = TypeOf(i)
                    \/ /\ TypeAfter(i) = kMT2FingerTypeThumb
                       /\ freeFingerTypes[kMT2FingerTypeThumb]
                       /\ Cardinality({j \in SlotSet :
                                          lastReport'.objs[j].type \in {"finger", "stylus"}}) = 4
                       /\ \A j \in ValidSlotsAfter : YAfter(j) <= YAfter(i)]_vars

\* three contacts typed index, middle and ring, then a fourth: slot 0 moves
\* from the index finger to the thumb
C3_Witness ==
    /\ delivered = 2
    /\ TypeOf(0) = kMT2FingerTypeThumb
    /\ inputEvent.transducers[0].previousCoordinates.x # 0
    /\ TypeOf(1) = 3 /\ TypeOf(2) = 4
    /\ TypeOf(3) = kMT2FingerTypeIndexFinger
    /\ ~inputEvent.transducers[4].isValid

\* C4: in an update that leaves exactly four valid contacts with distinct Y,
\* begun with the thumb free, the valid contact with the largest Y holds the
\* thumb afterwards.
C4_ThumbPreemption ==
    [][(/\ Updated
        /\ freeFingerTypes[kMT2FingerTypeThumb]
        /\ Cardinality(ValidSlotsAfter) = 4
        /\ \A i, j \in ValidSlotsAfter : i # j => YAfter(i) # YAfter(j))
           => \E i \in ValidSlotsAfter :
                  /\ TypeAfter(i) = kMT2FingerTypeThumb
                  /\ \A j \in ValidSlotsAfter : YAfter(j) <= YAfter(i)]_vars

\* the slots a type is allocated to in this step: valid afterwards, without
\* a type before, and not taken for the thumb
NewSlots ==
    {i \in ValidSlotsAfter :
        TypeOf(i) = kMT2FingerTypeUndefined /\ TypeAfter(i) # kMT2FingerTypeThumb}
\* the types free as the step begins
FreeBefore == {t \in NonThumbTypes : freeFingerTypes[t]}
\* the type the slot pre-empted for the thumb gives back
ReleasedByThumb ==
    {t \in NonThumbTypes :
        \E j \in SlotSet : TypeOf(j) = t /\ TypeAfter(j) = kMT2FingerTypeThumb}
\* the types given back by the slots below i that are invalid afterwards
ReleasedBelow(i) ==
    {t \in NonThumbTypes :
        \E j \in SlotSet \ ValidSlotsAfter : j < i /\ TypeOf(j) = t}
\* the pool once every release of the step is done
FreeAfterReleases ==
    FreeBefore \cup ReleasedByThumb \cup ReleasedBelow(Cardinality(SlotSet))

\* C5, as the spec states it: the new slots of an update receive, in slot
\* order, the lowest types of the pool as it is once every release of that
\* update is done (undefined once that pool is used up).
C5_ReleasesFirst ==
    [][Updated =>
         \A i \in NewSlots :
             LET k == Cardinality({j \in NewSlots : j < i})
             IN  IF k < Cardinality(FreeAfterReleases)
                 THEN /\ TypeAfter(i) \in FreeAfterReleases
                      /\ Cardinality({u \in FreeAfterReleases : u < TypeAfter(i)}) = k
                 ELSE TypeAfter(i) = kMT2FingerTypeUndefined]_vars

\* C5, amended: a new slot i receives the lowest type that is free once the
\* thumb pre-emption and the slots below i are done: free as the update
\* began, given back by the pre-empted slot or by an invalid slot below i,
\* and not taken by a new slot below i (undefined when there is none).
C5_SlotOrder ==
    [][Updated =>
         \A i \in NewSlots :
             LET avail == (FreeBefore \cup ReleasedByThumb \cup ReleasedBelow(i))
                              \ {TypeAfter(j) : j \in {j \in NewSlots : j < i}}
             IN  IF avail = {} THEN TypeAfter(i) = kMT2FingerTypeUndefined
                 ELSE TypeAfter(i) \in avail /\ \A u \in avail : TypeAfter(i) <= u]_vars

\* slot 1 held the index finger and lifts in the update that brings slot 0:
\* slot 0 is given the middle finger and the index finger ends free
C5_Witness ==
    /\ delivered = 2
    /\ ValidSlots = {0}
    /\ TypeOf(0) = 3
    /\ freeFingerTypes[kMT2FingerTypeIndexFinger]

\* C6: with the clickpad pressed and one valid contact, the pressure is 255
\* in an update whose Z exceeds the threshold, stays 0 in an update whose Z
\* does not when that contact was the one valid contact before and reported
\* 0, and once 255 stays 255 with the position unchanged while the lock is
\* engaged.
C6_ForceTouch ==
    [][(Updated /\ clickpadState) =>
         \A i \in SlotSet :
             ValidSlotsAfter = {i} =>
                 /\ lastReport'.objs[i].z > forceTouchMinPressure => PressureAfter(i) = 255
                 /\ (/\ ValidSlots = {i}
                     /\ PressureOf(i) = 0
                     /\ lastReport'.objs[i].z <= forceTouchMinPressure)
                        => PressureAfter(i) = 0
                 /\ (ValidSlots = {i} /\ PressureOf(i) = 255 /\ pressureLock')
                        => /\ PressureAfter(i) = 255
                           /\ inputEvent'.transducers[i].currentCoordinates.x
                                = inputEvent.transducers[i].currentCoordinates.x
                           /\ inputEvent'.transducers[i].currentCoordinates.y
                                = inputEvent.transducers[i].currentCoordinates.y]_vars

\* C7: with more than one valid contact the lock is not engaged and no
\* valid contact reports the pressure 255.
C7_NoLockWithSeveral ==
    Cardinality(ValidSlots) > 1 =>
        /\ ~pressureLock
        /\ \A i \in ValidSlots : PressureOf(i) # 255

\* C8: after an update a valid contact reports the button down exactly when
\* the clickpad is pressed and the lock is not engaged.
C8_ButtonDown ==
    [][Updated =>
         \A i \in ValidSlotsAfter :
             inputEvent'.transducers[i].isPhysicalButtonDown
                 <=> (clickpadState /\ ~pressureLock')]_vars

\* C9: an attention event taken while the touchpad is disabled, or less than
\* the typing timeout (500 ms) after the last keyboard time, delivers no
\* event and leaves the slots, the pool and the lock as they were.
C9_DiscardFrame ==
    [][(/\ attentions' = attentions + 1
        /\ \/ ~touchpadEnable
           \/ now >= lastKeyboardTS /\ now - lastKeyboardTS < 500 * 1000000)
           => /\ delivered' = delivered
              /\ UNCHANGED <<inputEvent, freeFingerTypes, pressureLock>>]_vars

\* one event delivered, then a packet that decodes to another report read
\* and dropped
C9_Witness ==
    /\ attentions = 2
    /\ delivered = 1
    /\ inputEvent.transducers[0].isValid
    /\ busLog[Len(busLog)].ok
    /\ DecodeReport(data_pkt, sensor, lastReport.timestamp, F11report) # lastReport

\* C10: after an update a slot is valid exactly when its contact is of type
\* finger or stylus, its Z is below 120 and its widths differ by less than 3.
C10_ValidityRule ==
    delivered > 0 =>
        \A i \in SlotSet :
            inputEvent.transducers[i].isValid
                <=> /\ lastReport.objs[i].type \in {"finger", "stylus"}
                    /\ lastReport.objs[i].z < 120
                    /\ lastReport.objs[i].wx - lastReport.objs[i].wy < 3
                    /\ lastReport.objs[i].wy - lastReport.objs[i].wx < 3

\* a stylus at the edge of the rule: Z 119, widths 15 and 13
C10_Witness ==
    /\ delivered = 1
    /\ lastReport.objs[0].type = "stylus"
    /\ lastReport.objs[0].z = 119
    /\ lastReport.objs[0].wx = 15 /\ lastReport.objs[0].wy = 13
    /\ inputEvent.transducers[0].isValid

\* C11: a contact that fails the rejection rule is left out of the position
\* and lock processing: the update leaves its slot's reported position as it
\* was, and an update in which no contact is valid does not engage the
\* pressure lock.
C11_RejectedExcluded ==
    [][Updated =>
         /\ \A i \in SlotSet \ ValidSlotsAfter :
               /\ inputEvent'.transducers[i].currentCoordinates.x
                    = inputEvent.transducers[i].currentCoordinates.x
               /\ inputEvent'.transducers[i].currentCoordinates.y
                    = inputEvent.transducers[i].currentCoordinates.y
         /\ (ValidSlotsAfter = {} /\ ~pressureLock) => ~pressureLock']_vars

\* C12, as the spec states it: in every delivered event contact_count is the
\* number of slots whose contact is valid, and the event has one slot per
\* input slot.
C12_CountsValid ==
    delivered > 0 =>
        /\ inputEvent.contact_count = Cardinality(ValidSlots)
        /\ Cardinality(SlotSet) = Cardinality(DOMAIN lastReport.objs)

\* C12, as the code has it: in every delivered event contact_count is the
\* number of slots of the report, valid or not, the event has one slot per
\* input slot, and the valid slots are among them.
C12_CountsSlots ==
    delivered > 0 =>
        /\ inputEvent.contact_count = lastReport.fingers
        /\ inputEvent.contact_count = Cardinality(DOMAIN lastReport.objs)
        /\ Cardinality(SlotSet) = Cardinality(DOMAIN lastReport.objs)
        /\ Cardinality(ValidSlots) <= inputEvent.contact_count

\* an event of five slots, two of them valid
C12_Witness ==
    /\ delivered = 1
    /\ Cardinality(ValidSlots) = 2
    /\ inputEvent.contact_count = 5
    /\ Cardinality(SlotSet) = 5

\* C13: a bus read of the initialization sequence that fails is the last bus
\* call of the sequence, initialization returns an error and the session is
\* not attached.
C13_ReadFailureFatal ==
    \A k \in 1 .. Len(busLog) :
        (busLog[k].op \in {"read", "readBlock"} /\ ~busLog[k].ok)
            => /\ initRc < 0
               /\ f11State = "failed"
               /\ k = Len(busLog)

\* the read of query 36, the fourteenth bus call on the pad with every
\* query, fails
C13_Witness ==
    /\ Len(busLog) = 14
    /\ busLog[14].op = "read"
    /\ ~busLog[14].ok
    /\ busLog[14].addr > fn_descriptor.query_base_addr
    /\ busLog[14].addr < fn_descriptor.control_base_addr
    /\ has_query.has_query28
    /\ initRc = -5

\* the control-block writes of the log: initialization issues the first,
\* start the second
BlockWrites == {k \in 1 .. Len(busLog) : busLog[k].op = "blockWrite"}
InitWrites == {k \in BlockWrites : \A j \in BlockWrites : k <= j}
StartWrites == BlockWrites \ InitWrites

\* C14, as the spec states it: a control-block write that fails during
\* initialization makes initialization return an error and the session not
\* attach; one that fails during start makes start fail.
C14_WriteFailureFatal ==
    /\ \A k \in InitWrites : ~busLog[k].ok => (initRc < 0 /\ f11State = "failed")
    /\ \A k \in StartWrites : ~busLog[k].ok => f11State = "failed"

\* C14, as the code has it: a control-block write that fails during
\* initialization leaves initialization returning 0 and the session
\* attached, able to start; one that fails during start makes start fail.
C14_WriteFailure ==
    /\ \A k \in InitWrites :
          ~busLog[k].ok => /\ initRc = 0
                           /\ k = Len(busLog) => f11State = "attached"
    /\ \A k \in StartWrites :
          ~busLog[k].ok => (k = Len(busLog) /\ f11State = "failed")

\* the write of initialization failed and the session started all the same
C14_Witness ==
    /\ f11State = "started"
    /\ initRc = 0
    /\ \E k \in InitWrites : ~busLog[k].ok
    /\ \E k \in StartWrites : busLog[k].ok

\* C15: initialization returns 0 only with absolute data and a physical
\* size in the record; once the chain is decoded without either of them it
\* returns the unsupported-device error (-ENODEV) with no packet buffer
\* allocated and no control register read or written.
C15_Unsupported ==
    /\ initRc = 0 => (sens_query.has_abs /\ sens_query.has_physical_props)
    /\ (/\ f11State # "new"
        /\ \A k \in 1 .. Len(busLog) : busLog[k].ok
        /\ ~(sens_query.has_abs /\ sens_query.has_physical_props))
           => /\ initRc = -19
              /\ f11State = "failed"
              /\ ~sensor.allocated
              /\ \A k \in 1 .. Len(busLog) :
                    /\ busLog[k].op # "blockWrite"
                    /\ busLog[k].addr < fn_descriptor.control_base_addr

\* a pad with a physical size, relative data and gestures but no absolute data
C15_Witness ==
    /\ initRc = -19
    /\ sens_query.has_physical_props
    /\ ~sens_query.has_abs
    /\ sens_query.has_gestures
    /\ Len(busLog) >= 5

\* C16: once initialization has failed, whatever attention events follow, no
\* packet is read from the device for decoding and no event is delivered to
\* the host.
C16_NoDeliveryAfterFailure ==
    initRc < 0 =>
        /\ f11State = "failed"
        /\ delivered = 0
        /\ inputEvent.transducers = ZeroEvent(sensor.nbr_fingers).transducers
        /\ \A k \in 1 .. Len(busLog) : busLog[k].addr # fn_descriptor.data_base_addr

\* initialization failed on the control-block read, with the layout already
\* computed, and three quarters of a second went by
C16_Witness ==
    /\ initRc = -5
    /\ f11State = "failed"
    /\ sensor.pkt_size = 11
    /\ now = MaxTime * TickNano
    /\ delivered = 0

\* C17: once the layout is computed, the resolved finger count is 10 for
\* the 3-bit code 5 and the code plus one for every other code, and is
\* never above 10.
C17_ResolvedCount ==
    sensor.pkt_size > 0 =>
        /\ sens_query.nr_fingers \in 0 .. 7
        /\ sens_query.nr_fingers = 5 => sensor.nbr_fingers = 10
        /\ sens_query.nr_fingers # 5 => sensor.nbr_fingers = sens_query.nr_fingers + 1
        /\ sensor.nbr_fingers <= 10

\* a pad announcing the code 5 initialized with ten fingers
C17_Witness ==
    /\ initRc = 0
    /\ sens_query.nr_fingers = 5
    /\ sensor.nbr_fingers = 10
    /\ sensor.pkt_size >= 53

\* the 5-byte record of a contact, as the spec lays it out
C18_Record(v) ==
    <<v.x \div 16, v.y \div 16, (v.y % 16) * 16 + (v.x % 16), v.wy * 16 + v.wx, v.z>>

\* the five bytes of slot i in the absolute region of a packet
C18_Bytes(pkt, i) ==
    [k \in 1 .. 5 |-> pkt[sensor.abs_pos + i * 5 + (k - 1)]]

\* C18: a contact (X, Y, Z, wx, wy) laid out in the 5-byte record of slot i
\* is decoded from offset i * 5 of the absolute region to the same X, Y, Z,
\* wx and wy.
C18_RoundTrip ==
    [][(attentions' = attentions + 1 /\ Updated) =>
         \A i \in 0 .. 1 : \A v \in CodecValues :
             C18_Bytes(data_pkt', i) = C18_Record(v) =>
                 /\ lastReport'.objs[i].x = v.x
                 /\ lastReport'.objs[i].y = v.y
                 /\ lastReport'.objs[i].z = v.z
                 /\ lastReport'.objs[i].wx = v.wx
                 /\ lastReport'.objs[i].wy = v.wy]_vars

\* slot 1 carried X = 2748 (0xABC), Y = 1929 (0x789), Z = 200, widths 3 and 14
C18_Witness ==
    /\ delivered = 1
    /\ C18_Bytes(data_pkt, 1) = <<171, 120, 156, 227, 200>>
    /\ lastReport.objs[1].x = 2748
    /\ lastReport.objs[1].y = 1929
    /\ lastReport.objs[1].z = 200
    /\ lastReport.objs[1].wx = 3
    /\ lastReport.objs[1].wy = 14

\* the query chain was decoded: no read below the control registers failed
ChainDecoded ==
    /\ f11State # "new"
    /\ \A k \in 1 .. Len(busLog) :
          busLog[k].addr < fn_descriptor.control_base_addr => busLog[k].ok

\* C19: when the capability decoder succeeds, every query byte it read lies
\* below the base plus the count it returned, which the caller has added to
\* query_offset: query_offset is the first byte after the chain.
C19_ReturnedCount ==
    ChainDecoded =>
        \A k \in 1 .. Len(busLog) :
            (/\ busLog[k].addr > fn_descriptor.query_base_addr
             /\ busLog[k].addr < fn_descriptor.control_base_addr)
                => busLog[k].addr + busLog[k].len <= query_offset

\* The blocks of the query chain in their order, as the state records them:
\* whether the block is present, its size in bytes, the bytes read of it (0:
\* it is skipped), and the block its flag is decoded from (0: the
\* extended-flag byte, read before the chain).
C20_Blocks ==
    <<[present |-> TRUE,                          size |-> 4,  read |-> 4, from |-> 0],
      [present |-> sens_query.has_abs,            size |-> 1,  read |-> 1, from |-> 1],
      [present |-> sens_query.has_rel,            size |-> 1,  read |-> 1, from |-> 1],
      [present |-> sens_query.has_gestures,       size |-> 2,  read |-> 2, from |-> 1],
      [present |-> has_query.has_query9,          size |-> 1,  read |-> 1, from |-> 0],
      [present |-> sens_query.has_touch_shapes,   size |-> 1,  read |-> 1, from |-> 4],
      [present |-> has_query.has_query11,         size |-> 1,  read |-> 1, from |-> 0],
      [present |-> has_query.has_query12,         size |-> 1,  read |-> 1, from |-> 0],
      [present |-> sens_query.has_jitter_filter,  size |-> 1,  read |-> 1, from |-> 2],
      [present |-> sens_query.has_info2,          size |-> 1,  read |-> 1, from |-> 8],
      [present |-> sens_query.has_physical_props, size |-> 12, read |-> 4, from |-> 8],
      [present |-> has_query.has_query27,         size |-> 1,  read |-> 0, from |-> 0],
      [present |-> has_query.has_query28,         size |-> 1,  read |-> 1, from |-> 0]>>

\* the summed sizes of the blocks present before block j
RECURSIVE C20_Offset(_)
C20_Offset(j) ==
    IF j = 1 THEN 0
    ELSE C20_Offset(j - 1)
             + (IF C20_Blocks[j - 1].present THEN C20_Blocks[j - 1].size ELSE 0)

\* the reads the chain is to issue: of every present block that is read, in
\* order, at the decoder's base plus the block's offset
C20_Expected ==
    LET at == [j \in 1 .. 13 |->
                  [j |-> j, addr |-> fn_descriptor.query_base_addr + 1 + C20_Offset(j),
                   len |-> C20_Blocks[j].read]]
        due == SelectSeq(at, LAMBDA b : C20_Blocks[b.j].present /\ b.len > 0)
    IN  [k \in 1 .. Len(due) |-> [addr |-> due[k].addr, len |-> due[k].len]]

\* the reads the chain issued: those of the log above the extended-flag byte
\* and below the control registers
C20_Issued ==
    LET rd == SelectSeq(busLog, LAMBDA e : /\ e.addr > fn_descriptor.query_base_addr
                                           /\ e.addr < fn_descriptor.control_base_addr)
    IN  [k \in 1 .. Len(rd) |-> [addr |-> rd[k].addr, len |-> rd[k].len]]

\* C20: in a decoded chain the reads of the blocks from the first block to
\* query 28 are those of the blocks whose flag is set, each at the base plus
\* the summed sizes of the blocks present before it, in the fixed order; a
\* block's flag comes from the extended-flag byte or from a present block
\* earlier in the order; the one read that may follow is that of query 36,
\* two bytes past query 28.
C20_GatedReads ==
    ChainDecoded =>
        /\ \A j \in 1 .. 13 :
              /\ C20_Blocks[j].from < j
              /\ (C20_Blocks[j].present /\ C20_Blocks[j].from > 0)
                    => C20_Blocks[C20_Blocks[j].from].present
        /\ busLog[1].addr = fn_descriptor.query_base_addr
        /\ Len(C20_Issued) >= Len(C20_Expected)
        /\ SubSeq(C20_Issued, 1, Len(C20_Expected)) = C20_Expected
        /\ Len(C20_Issued) <= Len(C20_Expected) + 1
        /\ Len(C20_Issued) = Len(C20_Expected) + 1
              => /\ has_query.has_query28
                 /\ C20_Issued[Len(C20_Issued)].addr
                        = C20_Expected[Len(C20_Expected)].addr + 2

\* a pad with every block: thirteen reads, query 28 read 27 bytes past the
\* decoder's base
C20_Witness ==
    /\ ChainDecoded
    /\ \A j \in 1 .. 13 : C20_Blocks[j].present
    /\ Len(C20_Issued) = 13
    /\ C20_Issued[12].addr = fn_descriptor.query_base_addr + 1 + 27

\* the read of the physical-properties block: the 4-byte read of the chain
\* past the first block
PhysicalReads ==
    {k \in 1 .. Len(busLog) :
        /\ busLog[k].len = 4
        /\ busLog[k].addr > fn_descriptor.query_base_addr + 1
        /\ busLog[k].addr < fn_descriptor.control_base_addr}

\* where the chain stands after the physical-properties block read at log
\* entry k and the skipped byte of query 27, when that block takes n bytes
AfterPhysical(k, n) ==
    busLog[k].addr + n + (IF has_query.has_query27 THEN 1 ELSE 0)

\* C21, as the spec states it: the physical-properties block takes 16 bytes
\* (4 read, 12 skipped): query 28 is read, and without it the chain ends,
\* 16 bytes after the start of the block, one more with query 27.
C21_SkipsTwelve ==
    (ChainDecoded /\ sens_query.has_physical_props) =>
        \A k \in PhysicalReads :
            /\ has_query.has_query28 => busLog[k + 1].addr = AfterPhysical(k, 16)
            /\ ~has_query.has_query28 => query_offset = AfterPhysical(k, 16)

\* C21, as the code has it: the physical-properties block takes 12 bytes (4
\* read as two little-endian 16-bit sizes, 8 skipped): query 28 is read, and
\* without it the chain ends, 12 bytes after the start of the block, one
\* more with query 27.
C21_SkipsEight ==
    (ChainDecoded /\ sens_query.has_physical_props) =>
        /\ Cardinality(PhysicalReads) = 1
        /\ sens_query.x_sensor_size_mm = (232 + 3 * 256) \div 10
        /\ sens_query.y_sensor_size_mm = (244 + 1 * 256) \div 10
        /\ \A k \in PhysicalReads :
            /\ has_query.has_query28 => busLog[k + 1].addr = AfterPhysical(k, 12)
            /\ ~has_query.has_query28 => query_offset = AfterPhysical(k, 12)

\* a pad with physical properties and query 28 but no query 27: query 28 is
\* read 12 bytes past the start of the physical-properties block
C21_Witness ==
    /\ ChainDecoded
    /\ sens_query.has_physical_props
    /\ has_query.has_query28
    /\ ~has_query.has_query27
    /\ \E k \in PhysicalReads : busLog[k + 1].addr = busLog[k].addr + 12

\* the jitter-filter byte was read: the record holds the window size (5) and
\* the filter type (1) of the byte the devices carry (37)
JitterRead ==
    sens_query.jitter_window_size = 5 /\ sens_query.jitter_filter_type = 1

\* C22, as the spec states it: the jitter-filter byte is read only when a
\* bit of the gesture bytes indicated a jitter filter, so only when the
\* gesture bytes were read and one of them has a bit set.
C22_GestureGated ==
    (ChainDecoded /\ JitterRead) =>
        /\ sens_query.has_gestures
        /\ sens_query.query7_nonzero \/ sens_query.query8_nonzero

\* C22, as the code has it: the jitter-filter byte is read exactly when the
\* absolute byte was read and announced a jitter filter (the absolute bytes
\* of the devices announce it together with dribble or not at all), whatever
\* the gesture bytes hold.
C22_AbsGated ==
    ChainDecoded =>
        /\ JitterRead <=> (sens_query.has_abs /\ sens_query.has_jitter_filter)
        /\ sens_query.has_jitter_filter => sens_query.has_abs
        /\ sens_query.has_jitter_filter <=> sens_query.has_dribble
        /\ Len(C20_Issued) >= Len(C20_Expected)

\* the jitter byte read on a pad without gestures
C22_Witness ==
    /\ ChainDecoded
    /\ JitterRead
    /\ sens_query.has_abs
    /\ ~sens_query.has_gestures
    /\ ~sens_query.query7_nonzero /\ ~sens_query.query8_nonzero

\* the 2-bit state of slot i in a packet: bits 2i and 2i+1 of its first byte
C23_State(pkt, i) == (pkt[0] \div (4 ^ i)) % 4

\* C23: in a packet that is not discarded a slot in the reserved state (3)
\* reaches the state machine as absent, with type none and an invalid
\* transducer, whatever the slot held in earlier packets, and every other
\* slot is decoded from its own state and record as usual.
C23_ReservedSlot ==
    [][(attentions' = attentions + 1 /\ Updated) =>
         \A i \in 0 .. 1 :
             /\ C23_State(data_pkt', i) = 3 =>
                   /\ lastReport'.objs[i].type = "none"
                   /\ ~inputEvent'.transducers[i].isValid
                   /\ inputEvent'.transducers[i].fingerType = kMT2FingerTypeUndefined
             /\ C23_State(data_pkt', i) # 3 =>
                   /\ lastReport'.objs[i].type = "finger" <=> C23_State(data_pkt', i) = 1
                   /\ lastReport'.objs[i].x
                        = data_pkt'[1 + 5 * i] * 16 + (data_pkt'[3 + 5 * i] % 16)
                   /\ lastReport'.objs[i].z = data_pkt'[5 + 5 * i]]_vars

\* slot 0 held a finger in the first packet and is reserved in the second,
\* where slot 1 is decoded as a finger
C23_Witness ==
    /\ attentions = 2
    /\ delivered = 2
    /\ C23_State(data_pkt, 0) = 3
    /\ inputEvent.transducers[0].currentCoordinates.x = 501
    /\ lastReport.objs[0].type = "none"
    /\ ~inputEvent.transducers[0].isValid
    /\ lastReport.objs[1].type = "finger"
    /\ lastReport.objs[1].x = 777
    /\ inputEvent.transducers[1].isValid

\* min(resolved finger count, packet size / 5)
C24_Slots ==
    IF sensor.nbr_fingers <= sensor.pkt_size \div 5
    THEN sensor.nbr_fingers ELSE sensor.pkt_size \div 5

\* C24: on an initialized session every packet that is not discarded is
\* decoded and reported with min(resolved finger count, packet size / 5)
\* slots: the report and the event count that many, and a packet with a
\* finger in every slot gives that many fingers.
C24_SlotCount ==
    [][(attentions' = attentions + 1 /\ Updated) =>
         /\ initRc = 0
         /\ lastReport'.fingers = C24_Slots
         /\ inputEvent'.contact_count = C24_Slots
         /\ data_pkt'[0] = 85 =>
               Cardinality({i \in DOMAIN lastReport'.objs :
                               lastReport'.objs[i].type = "finger"}) = C24_Slots]_vars

\* a ten-finger pad with relative data and gestures (packet size above 5
\* bytes a finger) reported ten fingers
C24_Witness ==
    /\ delivered >= 1
    /\ sensor.nbr_fingers = 10
    /\ sensor.pkt_size \div 5 > 10
    /\ lastReport.fingers = 10
    /\ Cardinality({i \in DOMAIN lastReport.objs : lastReport.objs[i].type = "finger"}) = 10

\* the block reads of the twelve control registers
ControlBlockReads ==
    {k \in 1 .. Len(busLog) : /\ busLog[k].op = "readBlock"
                              /\ busLog[k].len = RMI_F11_CTRL_REG_COUNT
                              /\ busLog[k].addr = fn_descriptor.control_base_addr}

\* C25, as the spec states it: once attach and start have succeeded the
\* control block has been read once and written once.
C25_OneWrite ==
    f11State = "started" =>
        /\ Cardinality(ControlBlockReads) = 1
        /\ Cardinality(BlockWrites) = 1

\* C25, as the code has it: once attach and start have succeeded the control
\* block has been read once, by initialization, and written twice, by
\* initialization after the read and then by start.
C25_TwoWrites ==
    f11State = "started" =>
        /\ Cardinality(ControlBlockReads) = 1
        /\ Cardinality(BlockWrites) = 2
        /\ \A k \in BlockWrites : busLog[k].len = RMI_F11_CTRL_REG_COUNT
        /\ \A r \in ControlBlockReads : \A k \in BlockWrites : r < k
        /\ \A k \in StartWrites : k = Len(busLog) /\ busLog[k].ok

\* the pad with every query started: eighteen bus calls by attach, the
\* nineteenth by start
C25_Witness ==
    /\ f11State = "started"
    /\ Len(busLog) = 19
    /\ \A k \in 1 .. 19 : busLog[k].ok
    /\ BlockWrites = {18, 19}
    /\ ControlBlockReads = {17}

\* C26: after an update that leaves no valid contact, palm-rejected
\* contacts or not, the pressure lock is released.
C26_LockReleased ==
    [][(Updated /\ ValidSlotsAfter = {}) => ~pressureLock']_vars

\* C27: every write of the control block, by initialization and by start,
\* is addressed to the control base address, where the block was read.
C27_WriteAddress ==
    \A k \in BlockWrites :
        /\ busLog[k].addr = fn_descriptor.control_base_addr
        /\ \A r \in ControlBlockReads : busLog[k].addr = busLog[r].addr

\* C28: a contact that reports pressure 255 without exceeding the threshold
\* itself is held by a lock engaged earlier, and that lock was engaged by
\* the contact of the same slot: the slot held a contact reporting 255 in
\* the update before.
C28_LockFollowsContact ==
    [][Updated =>
         \A i \in SlotSet :
             (/\ lastReport'.objs[i].type = "finger"
              /\ lastReport'.objs[i].z <= forceTouchMinPressure
              /\ PressureAfter(i) = 255)
                 => /\ lastReport.objs[i].type = "finger"
                    /\ PressureOf(i) = 255]_vars

\* the last packet read reports slot i without a contact
Lifted(i) == rmi_f11_parse_finger_state(data_pkt, i) = 0

\* identity t is in the pool after the step, free or given to a valid slot
InPoolOrHeldAfter(t) ==
    \/ freeFingerTypes'[t]
    \/ \E j \in ValidSlotsAfter : TypeAfter(j) = t

\* C29: when a slot is valid in the last event delivered and the packets
\* read since, all discarded, have left its contact lifted, the event the
\* next packet that is not discarded delivers has the slot invalid without
\* identity, and the identity it held is back in the pool.
C29_LiftDelivered ==
    [][Updated =>
         \A i \in ValidSlots :
             Lifted(i) => /\ i \notin ValidSlotsAfter
                          /\ TypeAfter(i) = kMT2FingerTypeUndefined
                          /\ InPoolOrHeldAfter(TypeOf(i))]_vars

=============================================================================
